---- MODULE Spec2Model ----
(***************************************************************************)
(* The dropimator importer: a product feed is upserted row by row into a   *)
(* table keyed by SKU (process_csv_row), every row is classified by a      *)
(* chat-completion call (generate_product_category), and a later sweep     *)
(* (enrich_products) fills the marketing fields of every stored product    *)
(* (enrich_product_marketing).                                             *)
(*                                                                         *)
(* Python values are represented as follows.                               *)
(*  - str: a sequence of characters, so that strip, replace and float are  *)
(*    computed and not assumed; a run of non-blank characters that no      *)
(*    operation looks into ("Whey") is written as one element.             *)
(*  - Optional[T]: the empty set for None, the singleton {v} for a value.  *)
(*  - model text (the message content): a sequence of pieces, a piece      *)
(*    being a fence of three backticks, a newline, a blank, a word, or the *)
(*    text of one JSON document.                                           *)
(***************************************************************************)
EXTENDS Integers, Sequences, FiniteSets, TLC

VARIABLES
    db,        \* the committed rows of table products: sku -> Product
    session,   \* the objects of the run's Session: sku -> Product
    pc,        \* position of main(): "ingest", "enrich", "done", "crashed"
    todo,      \* products still to visit in the loop of enrich_products
    now,       \* the clock read by dt.datetime.utcnow()
    apiCalls,  \* number of openai.ChatCompletion.create calls made so far
    fed,       \* the sku values of the rows whose process_csv_row returned
    last,      \* the operation just performed, its inputs and its results
    text,      \* decoder harness: the model text under decoding
    decoded,   \* decoder harness: what parse_json_content made of text
    answer,    \* marketing harness: the decoded answer of the model
    marketed,  \* marketing harness: what the assignments made of the product
    feed,      \* rerun: the rows of the feed file the run has still to read
    first      \* rerun: the rows the first run over the feed committed

vars ==
    <<db, session, pc, todo, now, apiCalls, fed, last, text, decoded, answer,
      marketed, feed, first>>

(***************************************************************************)
(* Bounds of the model.                                                    *)
(***************************************************************************)
MaxClock == 4      \* handler invocations in one behaviour
MaxTextLen == 5    \* pieces in a model text of the decoder harness

(***************************************************************************)
(* Optional values.                                                        *)
(***************************************************************************)
None == {}
Some(v) == {v}
Val(o) == CHOOSE v \in o : TRUE

(***************************************************************************)
(* Strings.                                                                *)
(***************************************************************************)
Whitespace == {" ", "\n"}

RECURSIVE LStrip(_)
LStrip(s) ==
    IF s # <<>> /\ Head(s) \in Whitespace THEN LStrip(Tail(s)) ELSE s

RECURSIVE RStrip(_)
RStrip(s) ==
    IF s # <<>> /\ s[Len(s)] \in Whitespace
    THEN RStrip(SubSeq(s, 1, Len(s) - 1))
    ELSE s

\* str.strip()
Strip(s) == RStrip(LStrip(s))

\* str.replace(old, new) for one-character old and new
Replace(s, old, new) == [i \in 1..Len(s) |-> IF s[i] = old THEN new ELSE s[i]]

\* truth value of an Optional[str]: None and "" are false
Truthy(o) == o # None /\ Val(o) # <<>>

\* normalise_string without its "or None": an empty result is returned as ""
normalise_string_keeps_empty(value) ==
    IF value = None THEN None ELSE Some(Strip(Val(value)))

\* normalise_string: trim, and turn the empty result into None
normalise_string(value) ==
    IF value = None THEN None
    ELSE LET result == Strip(Val(value))
         IN  IF result = <<>> THEN None ELSE Some(result)

(***************************************************************************)
(* Prices.  float() is modelled on texts of digits and one optional point; *)
(* its value is kept as the whole part and the fraction digits without     *)
(* trailing zeros, so that "1.50" and "1.5" are the same number.           *)
(***************************************************************************)
Digits == {"0", "1", "2", "5"}

DigitValue(c) == CASE c = "0" -> 0 [] c = "1" -> 1 [] c = "2" -> 2 [] c = "5" -> 5

\* does float(s) succeed (no ValueError)
IsFloatText(s) ==
    /\ s # <<>>
    /\ \A i \in 1..Len(s) : s[i] \in Digits \cup {"."}
    /\ Cardinality({i \in 1..Len(s) : s[i] = "."}) <= 1
    /\ \E i \in 1..Len(s) : s[i] \in Digits

RECURSIVE WholeValue(_)
WholeValue(s) ==
    IF s = <<>> THEN 0
    ELSE 10 * WholeValue(SubSeq(s, 1, Len(s) - 1)) + DigitValue(s[Len(s)])

RECURSIVE DropTrailingZeros(_)
DropTrailingZeros(s) ==
    IF s # <<>> /\ s[Len(s)] = "0"
    THEN DropTrailingZeros(SubSeq(s, 1, Len(s) - 1))
    ELSE s

\* float(s) for a text accepted by IsFloatText
FloatOf(s) ==
    LET points == {i \in 1..Len(s) : s[i] = "."}
        p == IF points = {} THEN Len(s) + 1 ELSE CHOOSE i \in points : TRUE
    IN  [whole |-> WholeValue(SubSeq(s, 1, p - 1)),
         frac  |-> DropTrailingZeros(SubSeq(s, p + 1, Len(s)))]

\* parse_price: "," becomes ".", trim, float; None for None, "" and ValueError
parse_price(value) ==
    IF value = None THEN None
    ELSE LET candidate == Strip(Replace(Val(value), ",", "."))
         IN  IF candidate = <<>> THEN None
             ELSE IF IsFloatText(candidate) THEN Some(FloatOf(candidate))
             ELSE None

\* does parse_price reach its except ValueError branch
PriceUnparsable(value) ==
    /\ value # None
    /\ Strip(Replace(Val(value), ",", ".")) # <<>>
    /\ ~IsFloatText(Strip(Replace(Val(value), ",", ".")))

(***************************************************************************)
(* JSON.  A JSON value inside an answer is a tagged record: a string with  *)
(* its characters, a number, or null.  A decoded document is a dict (a     *)
(* function from keys to values), a list, or a scalar.                     *)
(***************************************************************************)
JStr(s) == [t |-> "str", v |-> s]
JNum(s) == [t |-> "num", v |-> s]
JNull == [t |-> "null", v |-> <<>>]

JDict(d) == [t |-> "dict", d |-> d]
JList(d) == [t |-> "list", d |-> d]
JScalar(x) == [t |-> "scalar", d |-> <<x>>]

\* truth value of a JSON value: "", 0 and null are false
JTruthy(x) ==
    CASE x.t = "str" -> x.v # <<>>
      [] x.t = "num" -> x.v # <<"0">>
      [] OTHER -> FALSE

\* truth value of a decoded document: {} and [] are false
PayloadTruthy(p) ==
    CASE p.t = "dict" -> DOMAIN p.d # {}
      [] p.t = "list" -> p.d # <<>>
      [] OTHER -> JTruthy(p.d[1])

\* dict.get(key): the value, None (null) for a missing key
DictGet(p, key) == IF key \in DOMAIN p.d THEN p.d[key] ELSE JNull

\* isinstance(value, str) and value.strip()
IsUsableString(x) == x.t = "str" /\ Strip(x.v) # <<>>

(***************************************************************************)
(* Model text.                                                             *)
(***************************************************************************)
\* the three backticks of a Markdown fence
Fence == "FENCE"
Newline == "\n"
Blank == " "
Word == "json"

\* CATEGORY_CHOICES, the categories the prompt offers to the model
CATEGORY_CHOICES ==
    {<<"Proteine">>, <<"Aminoacizi">>, <<"Vitamine si Minerale">>,
     <<"Batoane si Gustari Fitness">>, <<"Suplimente pentru slabit">>,
     <<"Performanta/Stimulatoare">>, <<"Pre-Workout">>, <<"Creatina">>,
     <<"Imbracaminte si acesorii pentru sala">>, <<"Masa musculara">>,
     <<"Suplimente">>, <<"Probiotice">>}

DocCreatina == "{\"category\":\"Creatina\"}"
DocProteine == "{\"category\":\"Proteine\"}"
DocUnlisted == "{\"category\":\"Altele\"}"
DocNoCategory == "{\"category\":\"\"}"
DocEmpty == "{}"
DocList == "[\"Creatina\"]"
DocNumber == "5"
DocFull == "{\"html_description\":\"d1\",\"meta_title\":\"t1\",\"meta_description\":\"m1\",\"weight\":\"1kg\"}"
DocAlias == "{\"descriere\":\"d2\",\"meta_titlu\":\"t2\",\"meta_descriere\":\"m2\",\"weight\":\" 2kg \"}"
DocBoth == "{\"html_description\":\" \",\"descriere\":\"d2\",\"meta_title\":\"t1\",\"meta_titlu\":\"t2\",\"meta_description\":7,\"meta_descriere\":\"m2\"}"
DocTitleOnly == "{\"meta_title\":\"t3\"}"
DocWeightOnly == "{\"weight\":\"3kg\"}"
DocBlankWeight == "{\"weight\":\" \",\"html_description\":\"\"}"

\* the pieces that are the text of one JSON document
JsonDocs ==
    {DocCreatina, DocProteine, DocUnlisted, DocNoCategory, DocEmpty, DocList,
     DocNumber, DocFull, DocAlias, DocBoth, DocTitleOnly, DocWeightOnly,
     DocBlankWeight}

\* the value json.loads gives for the text of one document
JsonValue(doc) ==
    CASE doc = DocCreatina -> JDict([k \in {"category"} |-> JStr(<<"Creatina">>)])
      [] doc = DocProteine -> JDict([k \in {"category"} |-> JStr(<<"Proteine">>)])
      [] doc = DocUnlisted -> JDict([k \in {"category"} |-> JStr(<<"Altele">>)])
      [] doc = DocNoCategory -> JDict([k \in {"category"} |-> JStr(<<>>)])
      [] doc = DocEmpty -> JDict([k \in {} |-> JNull])
      [] doc = DocList -> JList(<<JStr(<<"Creatina">>)>>)
      [] doc = DocNumber -> JScalar(JNum(<<"5">>))
      [] doc = DocFull ->
            JDict([html_description |-> JStr(<<"d1">>),
                   meta_title |-> JStr(<<"t1">>),
                   meta_description |-> JStr(<<"m1">>),
                   weight |-> JStr(<<"1kg">>)])
      [] doc = DocAlias ->
            JDict([descriere |-> JStr(<<"d2">>),
                   meta_titlu |-> JStr(<<"t2">>),
                   meta_descriere |-> JStr(<<"m2">>),
                   weight |-> JStr(<<" ", "2kg", " ">>)])
      [] doc = DocBoth ->
            JDict([html_description |-> JStr(<<" ">>),
                   descriere |-> JStr(<<"d2">>),
                   meta_title |-> JStr(<<"t1">>),
                   meta_titlu |-> JStr(<<"t2">>),
                   meta_description |-> JNum(<<"7">>),
                   meta_descriere |-> JStr(<<"m2">>)])
      [] doc = DocTitleOnly -> JDict([meta_title |-> JStr(<<"t3">>)])
      [] doc = DocWeightOnly -> JDict([weight |-> JStr(<<"3kg">>)])
      [] doc = DocBlankWeight ->
            JDict([weight |-> JStr(<<" ">>), html_description |-> JStr(<<>>)])

\* str.startswith(fence) and str.endswith(fence)
StartsWithFence(s) == s # <<>> /\ s[1] = Fence
EndsWithFence(s) == s # <<>> /\ s[Len(s)] = Fence

\* position of the first newline of s, 0 when there is none
FirstNewline(s) ==
    IF \E i \in 1..Len(s) : s[i] = Newline
    THEN CHOOSE i \in 1..Len(s) :
            s[i] = Newline /\ \A j \in 1..(i - 1) : s[j] # Newline
    ELSE 0

\* str.splitlines(): a final newline opens no further line
RECURSIVE SplitLines(_)
SplitLines(s) ==
    IF s = <<>> THEN <<>>
    ELSE LET i == FirstNewline(s)
         IN  IF i = 0 THEN <<s>>
             ELSE <<SubSeq(s, 1, i - 1)>> \o SplitLines(SubSeq(s, i + 1, Len(s)))

\* "\n".join(lines)
RECURSIVE JoinLines(_)
JoinLines(lines) ==
    IF lines = <<>> THEN <<>>
    ELSE IF Len(lines) = 1 THEN lines[1]
    ELSE lines[1] \o <<Newline>> \o JoinLines(Tail(lines))

NotFenceLine(line) == ~StartsWithFence(line)

\* clean_json_block: inside a fenced text, drop every line that starts with
\* a fence
clean_json_block(content) ==
    LET stripped == Strip(content)
    IN  IF StartsWithFence(stripped) /\ EndsWithFence(stripped)
        THEN Strip(JoinLines(SelectSeq(SplitLines(stripped), NotFenceLine)))
        ELSE stripped

\* json.loads: one document, blanks around it allowed; None stands for
\* JSONDecodeError
json_loads(s) ==
    LET t == Strip(s)
    IN  IF Len(t) = 1 /\ t[1] \in JsonDocs THEN Some(JsonValue(t[1])) ELSE None

\* parse_json_content: the decoded document, None when json.loads fails
parse_json_content(content) == json_loads(clean_json_block(content))

(***************************************************************************)
(* The API envelope: what openai.ChatCompletion.create returned, as the    *)
(* plain dict serialise_openai_response makes of it.                       *)
(*   content.t: "missing" when choices[0].message.content cannot be        *)
(*              reached, "null", "str" (with its text) or "list"           *)
(*   usage.t:   "missing", "map" (with total_tokens, None when that key is *)
(*              missing) or "notmap" (usage is no mapping)                 *)
(***************************************************************************)
Envelope(id, content, usage) == [id |-> id, content |-> content, usage |-> usage]

NoContent == [t |-> "missing", text |-> <<>>]
NullContent == [t |-> "null", text |-> <<>>]
ListContent == [t |-> "list", text |-> <<>>]
TextContent(s) == [t |-> "str", text |-> s]

NoUsage == [t |-> "missing", total |-> None]
BadUsage == [t |-> "notmap", total |-> None]
Usage(n) == [t |-> "map", total |-> n]

\* the dict {}
EmptyEnvelope == Envelope(None, NoContent, NoUsage)

\* An outcome of one API call: the call raises, or returns an envelope.
Raises == [raises |-> TRUE, env |-> EmptyEnvelope]
Returns(env) == [raises |-> FALSE, env |-> env]
\* the outcome recorded for a step that made no call
NoCall == [raises |-> FALSE, env |-> EmptyEnvelope]

\* what a call made of its result: the value it returned, or that an
\* exception left it
Returned(v) == [raised |-> FALSE, value |-> v]
Propagated == [raised |-> TRUE, value |-> None]

\* request_chat_completion without its try/except: the exception of the API
\* call leaves it
request_chat_completion_unprotected(outcome) ==
    IF outcome.raises THEN Propagated ELSE Returned(Some(outcome.env))

\* request_chat_completion: the except clause turns every exception of the
\* API call into None; otherwise the envelope is returned
request_chat_completion(outcome) ==
    IF outcome.raises THEN Returned(None) ELSE Returned(Some(outcome.env))

\* extract_message_content: None on KeyError, IndexError, TypeError; else the
\* content as it is
extract_message_content(response) ==
    IF response.content.t = "missing" THEN None ELSE Some(response.content)

\* truth value of the extracted content
ContentTruthy(content) ==
    /\ content # None
    /\ CASE Val(content).t = "null" -> FALSE
         [] Val(content).t = "str" -> Val(content).text # <<>>
         [] OTHER -> TRUE

\* response.get("usage", {}).get("total_tokens") raises AttributeError when
\* usage is no mapping
TotalTokensRaises(response) == response.usage.t = "notmap"
TotalTokens(response) == response.usage.total

(***************************************************************************)
(* Product: one row of table products.                                     *)
(***************************************************************************)
StringColumns == {"manufacturer_name", "name", "qty", "flavour", "weight", "img_url"}
FeedColumns == StringColumns \cup {"retail_price"}
MarketingColumns == {"description", "meta_title", "meta_description"}

\* Product(sku=sku): every other attribute is None
Product(sku) ==
    [sku |-> sku, manufacturer_name |-> None, name |-> None, qty |-> None,
     flavour |-> None, weight |-> None, img_url |-> None, retail_price |-> None,
     description |-> None, meta_title |-> None, meta_description |-> None,
     created_at |-> None, updated_at |-> None, openai_response |-> None,
     total_tokens |-> None, category |-> None]

\* the result of a step: the product as the step left it, what it returned,
\* whether it called the API and whether an exception left it
StepResult(product, ret, called, raised) ==
    [product |-> product, ret |-> ret, called |-> called, raised |-> raised]

\* the category a decoded answer carries: payload.get("category")
PayloadCategory(payload) ==
    LET x == DictGet(payload, "category")
    IN  IF x.t = "str" THEN Some(x.v) ELSE None

\* generate_product_category, the part after the guard: the API is called
ClassifyByApi(product, outcome) ==
    LET call == request_chat_completion(outcome)
        response == call.value
        content == extract_message_content(Val(response))
        payload == parse_json_content(Val(content).text)
        p1 == [product EXCEPT !.openai_response = response]
        p2 == [p1 EXCEPT !.total_tokens = TotalTokens(Val(response))]
    IN  IF call.raised
        THEN StepResult(product, None, TRUE, TRUE)
        ELSE IF response = None \/ response = Some(EmptyEnvelope)
        THEN StepResult(product, None, TRUE, FALSE)
        ELSE IF ~ContentTruthy(content)
        THEN StepResult(product, None, TRUE, FALSE)
        ELSE IF Val(content).t # "str"
        THEN StepResult(product, None, TRUE, TRUE)     \* content.strip()
        ELSE IF payload = None \/ ~PayloadTruthy(Val(payload))
        THEN StepResult(product, None, TRUE, FALSE)
        ELSE IF TotalTokensRaises(Val(response))
        THEN StepResult(p1, None, TRUE, TRUE)          \* usage.get
        ELSE IF Val(payload).t # "dict"
        THEN StepResult(p2, None, TRUE, TRUE)          \* payload.get
        ELSE StepResult(p2, PayloadCategory(Val(payload)), TRUE, FALSE)

\* generate_product_category without its guard on product.category
generate_product_category_unguarded(product, outcome) ==
    ClassifyByApi(product, outcome)

\* generate_product_category storing the envelope as soon as the call has
\* returned it, before the answer is decoded
generate_product_category_recording(product, outcome) ==
    IF Truthy(product.category)
    THEN StepResult(product, product.category, FALSE, FALSE)
    ELSE IF outcome.raises
    THEN ClassifyByApi(product, outcome)
    ELSE [ClassifyByApi(product, outcome) EXCEPT
            !.product.openai_response = Some(outcome.env)]

\* generate_product_category
generate_product_category(product, outcome) ==
    IF Truthy(product.category)
    THEN StepResult(product, product.category, FALSE, FALSE)
    ELSE ClassifyByApi(product, outcome)

\* get_first_present looking at the second key first
get_first_present_alias_first(payload, key1, key2) ==
    IF IsUsableString(DictGet(payload, key2)) THEN Some(DictGet(payload, key2).v)
    ELSE IF IsUsableString(DictGet(payload, key1)) THEN Some(DictGet(payload, key1).v)
    ELSE None

\* get_first_present for two keys: the first value that is a non-blank str
get_first_present(payload, key1, key2) ==
    IF IsUsableString(DictGet(payload, key1)) THEN Some(DictGet(payload, key1).v)
    ELSE IF IsUsableString(DictGet(payload, key2)) THEN Some(DictGet(payload, key2).v)
    ELSE None

\* the assignments of enrich_product_marketing with the weight stored as
\* the answer gives it, untrimmed
ApplyMarketingRawWeight(product, payload) ==
    LET description == get_first_present(payload, "html_description", "descriere")
        meta_title == get_first_present(payload, "meta_title", "meta_titlu")
        meta_description ==
            get_first_present(payload, "meta_description", "meta_descriere")
        weight == DictGet(payload, "weight")
        p1 == IF Truthy(description)
              THEN [product EXCEPT !.description = description] ELSE product
        p2 == IF Truthy(meta_title)
              THEN [p1 EXCEPT !.meta_title = meta_title] ELSE p1
        p3 == IF Truthy(meta_description)
              THEN [p2 EXCEPT !.meta_description = meta_description] ELSE p2
        p4 == IF IsUsableString(weight)
              THEN [p3 EXCEPT !.weight = Some(weight.v)] ELSE p3
    IN  [product |-> p4,
         updated |-> \/ Truthy(description) \/ Truthy(meta_title)
                     \/ Truthy(meta_description) \/ IsUsableString(weight)]

\* enrich_product_marketing, the assignments made from a decoded dict
ApplyMarketing(product, payload) ==
    LET description == get_first_present(payload, "html_description", "descriere")
        meta_title == get_first_present(payload, "meta_title", "meta_titlu")
        meta_description ==
            get_first_present(payload, "meta_description", "meta_descriere")
        weight == DictGet(payload, "weight")
        p1 == IF Truthy(description)
              THEN [product EXCEPT !.description = description] ELSE product
        p2 == IF Truthy(meta_title)
              THEN [p1 EXCEPT !.meta_title = meta_title] ELSE p1
        p3 == IF Truthy(meta_description)
              THEN [p2 EXCEPT !.meta_description = meta_description] ELSE p2
        p4 == IF IsUsableString(weight)
              THEN [p3 EXCEPT !.weight = Some(Strip(weight.v))] ELSE p3
    IN  [product |-> p4,
         updated |-> \/ Truthy(description) \/ Truthy(meta_title)
                     \/ Truthy(meta_description) \/ IsUsableString(weight)]

\* enrich_product_marketing, the part after the guard: the API is called
MarketingByApi(product, outcome, clock) ==
    LET call == request_chat_completion(outcome)
        response == call.value
        content == extract_message_content(Val(response))
        payload == parse_json_content(Val(content).text)
        applied == ApplyMarketing(product, Val(payload))
        p5 == [applied.product EXCEPT !.updated_at = Some(clock),
                                      !.openai_response = response]
        p6 == [p5 EXCEPT !.total_tokens = TotalTokens(Val(response))]
    IN  IF call.raised
        THEN StepResult(product, FALSE, TRUE, TRUE)
        ELSE IF response = None \/ response = Some(EmptyEnvelope)
        THEN StepResult(product, FALSE, TRUE, FALSE)
        ELSE IF ~ContentTruthy(content)
        THEN StepResult(product, FALSE, TRUE, FALSE)
        ELSE IF Val(content).t # "str"
        THEN StepResult(product, FALSE, TRUE, TRUE)    \* content.strip()
        ELSE IF payload = None \/ ~PayloadTruthy(Val(payload))
        THEN StepResult(product, FALSE, TRUE, FALSE)
        ELSE IF Val(payload).t # "dict"
        THEN StepResult(product, FALSE, TRUE, TRUE)    \* data.get
        ELSE IF ~applied.updated
        THEN StepResult(product, FALSE, TRUE, FALSE)
        ELSE IF TotalTokensRaises(Val(response))
        THEN StepResult(p5, FALSE, TRUE, TRUE)         \* usage.get
        ELSE StepResult(p6, TRUE, TRUE, FALSE)

\* enrich_product_marketing without its guard on the three fields
enrich_product_marketing_unguarded(product, outcome, clock) ==
    MarketingByApi(product, outcome, clock)

\* enrich_product_marketing assigning the weight without reporting it: an
\* answer that gives nothing but a weight changes the product and returns
\* False
enrich_product_marketing_unreported_weight(product, outcome, clock) ==
    LET step == MarketingByApi(product, outcome, clock)
    IN  IF /\ Truthy(product.description)
           /\ Truthy(product.meta_title)
           /\ Truthy(product.meta_description)
        THEN StepResult(product, FALSE, FALSE, FALSE)
        ELSE IF /\ step.product.weight # product.weight
                /\ \A c \in MarketingColumns : step.product[c] = product[c]
        THEN StepResult([product EXCEPT !.weight = step.product.weight],
                        FALSE, TRUE, FALSE)
        ELSE step

\* enrich_product_marketing that also files the product under a category
\* when it has updated it
enrich_product_marketing_classifying(product, outcome, clock) ==
    LET step == MarketingByApi(product, outcome, clock)
    IN  IF /\ Truthy(product.description)
           /\ Truthy(product.meta_title)
           /\ Truthy(product.meta_description)
        THEN StepResult(product, FALSE, FALSE, FALSE)
        ELSE IF step.ret
        THEN [step EXCEPT !.product.category = Some(<<"Suplimente">>)]
        ELSE step

\* enrich_product_marketing
enrich_product_marketing(product, outcome, clock) ==
    IF /\ Truthy(product.description)
       /\ Truthy(product.meta_title)
       /\ Truthy(product.meta_description)
    THEN StepResult(product, FALSE, FALSE, FALSE)
    ELSE MarketingByApi(product, outcome, clock)

(***************************************************************************)
(* Feed rows: what csv.DictReader yields, a value per column, None for a   *)
(* column the line does not reach.                                         *)
(***************************************************************************)
Row(sku, manufacturer_name, name, qty, flavour, weight, img_url, retail_price) ==
    [sku |-> sku, manufacturer_name |-> manufacturer_name, name |-> name,
     qty |-> qty, flavour |-> flavour, weight |-> weight, img_url |-> img_url,
     retail_price |-> retail_price]

EmptyRow == Row(None, None, None, None, None, None, None, None)

\* process_csv_row assigning every normalised value, None included
ApplyRowOverwriting(product, row) ==
    [product EXCEPT
        !.manufacturer_name = normalise_string(row.manufacturer_name),
        !.name = normalise_string(row.name),
        !.qty = normalise_string(row.qty),
        !.flavour = normalise_string(row.flavour),
        !.weight = normalise_string(row.weight),
        !.img_url = normalise_string(row.img_url),
        !.retail_price = parse_price(row.retail_price)]

\* process_csv_row, the assignments: a normalised value is assigned when it
\* is not None
ApplyRow(product, row) ==
    LET manufacturer == normalise_string(row.manufacturer_name)
        name == normalise_string(row.name)
        qty == normalise_string(row.qty)
        flavour == normalise_string(row.flavour)
        weight == normalise_string(row.weight)
        img_url == normalise_string(row.img_url)
        retail_price == parse_price(row.retail_price)
    IN  [product EXCEPT
            !.manufacturer_name = IF manufacturer # None THEN manufacturer ELSE @,
            !.name = IF name # None THEN name ELSE @,
            !.qty = IF qty # None THEN qty ELSE @,
            !.flavour = IF flavour # None THEN flavour ELSE @,
            !.weight = IF weight # None THEN weight ELSE @,
            !.img_url = IF img_url # None THEN img_url ELSE @,
            !.retail_price = IF retail_price # None THEN retail_price ELSE @]

(***************************************************************************)
(* The store.                                                              *)
(***************************************************************************)
EmptyStore == [k \in {} |-> Product(<<>>)]

\* a lookup that never finds the stored product
SessionGetNothing(store, sku) == None

\* session.get(Product, sku)
SessionGet(store, sku) == IF sku \in DOMAIN store THEN Some(store[sku]) ELSE None

\* the session after session.add(product), or after a change of product
Put(store, product) ==
    [k \in DOMAIN store \cup {product.sku} |->
        IF k = product.sku THEN product ELSE store[k]]

\* session.commit(): the flush inserts the new rows, whose created_at takes
\* the column default
Commit(store, clock) ==
    [k \in DOMAIN store |->
        IF store[k].created_at = None
        THEN [store[k] EXCEPT !.created_at = Some(clock)]
        ELSE store[k]]

\* a listing that names one of the products twice
OrdersRepeating(S) ==
    {o \in [1..Cardinality(S) + 1 -> S] : \A k \in S : \E i \in DOMAIN o : o[i] = k}

\* the orders in which session.query(Product).all() may list the products
Orders(S) ==
    {o \in [1..Cardinality(S) -> S] :
        \A i, j \in 1..Cardinality(S) : i # j => o[i] # o[j]}

(***************************************************************************)
(* The record of the operation just performed.                             *)
(*   op        "none", "start", "skip", "upsert", "enrich"                 *)
(*   row       the feed row of an upsert                                   *)
(*   outcome   the outcome of the API call, NoCall when none was made      *)
(*             (the outcome an action is given is what the API would do if *)
(*             it were called)                                             *)
(*   before    the product before the operation, None when it was new      *)
(*   stepIn    the product handed to the enrichment step                   *)
(*   stepOut   the product when the step returned or raised                *)
(*   called    the step called the API                                     *)
(*   raised    an exception left the step                                  *)
(*   category  what generate_product_category returned                     *)
(*   changed   what enrich_product_marketing returned                      *)
(*   committed the operation reached session.commit()                      *)
(*   repeat    the row is the row of the upsert made just before           *)
(***************************************************************************)
NoOp ==
    [op |-> "none", row |-> EmptyRow, outcome |-> NoCall, sku |-> None,
     before |-> None, stepIn |-> None, stepOut |-> None, called |-> FALSE,
     raised |-> FALSE, category |-> None, changed |-> FALSE,
     committed |-> FALSE, repeat |-> FALSE]

(***************************************************************************)
(* process_csv_row(session, row)                                           *)
(***************************************************************************)
SkipRow(row) ==
    /\ normalise_string(row.sku) = None
    /\ last' = [NoOp EXCEPT !.op = "skip", !.row = row]
    /\ fed' = fed \cup {row.sku}
    /\ UNCHANGED <<db, session, pc, todo, apiCalls>>

\* process_csv_row from the lookup on, for a row with a sku: the session it
\* leaves and the record of what it did
Upserted(store, row, outcome, clock) ==
    LET sku == Val(normalise_string(row.sku))
        before == SessionGet(store, sku)
        product == IF before = None THEN Product(sku) ELSE Val(before)
        stepIn == [ApplyRow(product, row) EXCEPT !.updated_at = Some(clock)]
        step == generate_product_category(stepIn, outcome)
        final == IF Truthy(step.ret)
                 THEN [step.product EXCEPT !.category = step.ret]
                 ELSE step.product
    IN  [session |-> IF step.raised
                     THEN Put(store, step.product)
                     ELSE Commit(Put(store, final), clock),
         done |-> [NoOp EXCEPT !.op = "upsert", !.row = row,
                               !.outcome = IF step.called THEN outcome
                                           ELSE NoCall,
                               !.sku = Some(sku), !.before = before,
                               !.stepIn = Some(stepIn),
                               !.stepOut = Some(step.product),
                               !.called = step.called,
                               !.raised = step.raised,
                               !.category = step.ret,
                               !.committed = ~step.raised]]

StoreRow(row, outcome) ==
    LET result == Upserted(session, row, outcome, now)
    IN  /\ normalise_string(row.sku) # None
        /\ apiCalls' = IF result.done.called THEN apiCalls + 1 ELSE apiCalls
        /\ last' = [result.done EXCEPT
                        !.repeat = /\ last.op = "upsert"
                                   /\ last.committed
                                   /\ last.row = row]
        /\ session' = result.session
        /\ UNCHANGED todo
        /\ IF result.done.raised
           THEN /\ pc' = "crashed"
                /\ UNCHANGED <<db, fed>>
           ELSE /\ db' = session'
                /\ fed' = fed \cup {row.sku}
                /\ UNCHANGED pc

\* a loop over the feed that goes on while enrich_products runs
IngestingAtAnyTime == pc \in {"ingest", "enrich"} /\ now < MaxClock

\* main() is in its loop over the feed, and the clock has not run out
Ingesting == pc = "ingest" /\ now < MaxClock

UpsertRow(row, outcome) ==
    /\ Ingesting
    /\ now' = now + 1
    /\ \/ SkipRow(row)
       \/ StoreRow(row, outcome)
    /\ UNCHANGED <<text, decoded, answer,
                 marketed>>

\* the feed is exhausted: main() goes on to enrich_products, which lists the
\* products
EndFeed ==
    /\ pc = "ingest"
    /\ pc' = "enrich"
    /\ todo' \in Orders(DOMAIN session)
    /\ last' = NoOp
    /\ UNCHANGED <<db, session, now, apiCalls, fed, text, decoded, answer,
                 marketed, feed, first>>

(***************************************************************************)
(* enrich_products(session): one turn of its loop                          *)
(***************************************************************************)
NeedsMarketing(product) ==
    ~(/\ Truthy(product.description)
      /\ Truthy(product.meta_title)
      /\ Truthy(product.meta_description))

EnrichStep(outcome) ==
    /\ pc = "enrich"
    /\ todo # <<>>
    /\ now < MaxClock
    /\ now' = now + 1
    /\ LET product == session[Head(todo)]
           step == enrich_product_marketing(product, outcome, now)
           done == [NoOp EXCEPT !.op = "enrich",
                                !.outcome = IF step.called THEN outcome
                                            ELSE NoCall,
                                !.sku = Some(product.sku),
                                !.before = Some(product),
                                !.stepIn = Some(product),
                                !.stepOut = Some(step.product),
                                !.called = step.called, !.raised = step.raised,
                                !.changed = step.ret,
                                !.committed = step.ret]
       IN  /\ apiCalls' = IF step.called THEN apiCalls + 1 ELSE apiCalls
           /\ last' = done
           /\ todo' = Tail(todo)
           /\ session' = Put(session, step.product)
           /\ db' = IF step.ret THEN Commit(session', now) ELSE db
           /\ pc' = IF step.raised THEN "crashed" ELSE pc
    /\ UNCHANGED <<fed, text, decoded, answer,
                 marketed, feed, first>>

\* the loop of enrich_products is over: main() returns
EnrichDone ==
    /\ pc = "enrich"
    /\ todo = <<>>
    /\ pc' = "done"
    /\ last' = NoOp
    /\ UNCHANGED <<db, session, todo, now, apiCalls, fed, text, decoded, answer,
                 marketed, feed, first>>

\* the importer is started again, on the table the earlier run left behind;
\* what a crashed run had not committed is gone with its session
StartRun ==
    /\ pc \in {"done", "crashed"}
    /\ pc' = "ingest"
    /\ session' = db
    /\ todo' = <<>>
    /\ last' = [NoOp EXCEPT !.op = "start"]
    /\ UNCHANGED <<db, now, apiCalls, fed, text, decoded, answer,
                 marketed, feed, first>>

(***************************************************************************)
(* The inputs of the pipeline: feed rows and API outcomes.                 *)
(***************************************************************************)
Str(x) == Some(<<x>>)
Padded(x) == Some(<<" ", x, " ">>)

\* a full row of product a, values padded, price with a decimal comma
FullRow ==
    Row(Some(<<" ", "a">>), Padded("BioTech"), Padded("Whey"), Str("10"),
        Padded("Vanilla"), Str("1kg"), Str("http://img/a"),
        Some(<<"1", ",", "5", "0">>))

FeedRows ==
    {\* no sku column value
     Row(None, Str("BioTech"), Str("Whey"), None, None, None, None, None),
     \* a blank sku
     Row(Some(<<" ">>), None, Str("Whey"), None, None, None, None,
         Some(<<"2">>)),
     FullRow,
     \* a partial row of product a: missing, empty and blank values, a new
     \* name, a price that is no number
     Row(Str("a"), None, Str("Whey Gold"), Some(<<>>), Some(<<" ">>), None,
         Some(<<" ", " ">>), Some(<<"a", "b", "c">>)),
     \* a row of product b
     Row(Some(<<"b", " ">>), None, Str("Creatine"), None, None, Str("500g"),
         None, Some(<<"2", ".", ".", "5">>))}

Id == Str("chatcmpl-1")
Plain(doc) == TextContent(<<doc>>)
FencedLines(doc) == TextContent(<<Fence, Word, Newline, doc, Newline, Fence>>)
FencedInline(doc) == TextContent(<<Fence, doc, Fence>>)

ClassifyOutcomes ==
    {Raises,
     Returns(Envelope(Id, NoContent, Usage(Some(3)))),
     Returns(Envelope(Id, TextContent(<<Word, Blank, DocCreatina>>), Usage(Some(4)))),
     Returns(Envelope(Id, Plain(DocCreatina), Usage(Some(7)))),
     Returns(Envelope(Id, FencedLines(DocUnlisted), NoUsage)),
     Returns(Envelope(Id, FencedInline(DocProteine), Usage(Some(8)))),
     Returns(Envelope(Id, Plain(DocNoCategory), Usage(Some(5)))),
     Returns(Envelope(Id, Plain(DocList), Usage(Some(6)))),
     Returns(Envelope(Id, Plain(DocProteine), BadUsage))}

MarketingOutcomes ==
    {Raises,
     Returns(Envelope(Id, NullContent, Usage(Some(3)))),
     Returns(Envelope(Id, TextContent(<<DocFull, Word>>), Usage(Some(4)))),
     Returns(Envelope(Id, Plain(DocFull), Usage(Some(90)))),
     Returns(Envelope(Id, FencedLines(DocAlias), Usage(None))),
     Returns(Envelope(Id, Plain(DocTitleOnly), Usage(Some(20)))),
     Returns(Envelope(Id, Plain(DocBlankWeight), Usage(Some(9)))),
     Returns(Envelope(Id, Plain(DocList), Usage(Some(6)))),
     Returns(Envelope(Id, Plain(DocWeightOnly), BadUsage))}

\* the decoder harness before parse_json_content was applied
Undecoded == [done |-> FALSE, value |-> None]

\* the marketing harness when it is not in use, and before the assignments
NoAnswer == JDict([k \in {} |-> JNull])
Unapplied == [done |-> FALSE, before |-> None, after |-> None, updated |-> FALSE]

(***************************************************************************)
(* The importer: runs of main() over a fresh table.                        *)
(***************************************************************************)
Init ==
    /\ db = EmptyStore
    /\ session = EmptyStore
    /\ pc = "ingest"
    /\ todo = <<>>
    /\ now = 0
    /\ apiCalls = 0
    /\ fed = {}
    /\ last = NoOp
    /\ text = <<>>
    /\ decoded = Undecoded
    /\ answer = NoAnswer
    /\ marketed = Unapplied
    /\ feed = <<>>
    /\ first = EmptyStore

Ingest ==
    /\ Ingesting
    /\ \E row \in FeedRows : \E outcome \in ClassifyOutcomes :
          UpsertRow(row, outcome)
    /\ UNCHANGED <<feed, first>>

Enrich == \E outcome \in MarketingOutcomes : EnrichStep(outcome)

Next ==
    \/ Ingest
    \/ EndFeed
    \/ Enrich
    \/ EnrichDone
    \/ StartRun

Spec == Init /\ [][Next]_vars

(***************************************************************************)
(* One more row for a stored table.  The table is empty or holds product a *)
(* as the import of FullRow left it; the row is any combination of present *)
(* and absent columns.                                                     *)
(***************************************************************************)
\* the ways a column value is absent: no value, "" and " "
Absent == {None, Some(<<>>), Some(<<" ">>)}

PriceTexts ==
    {<<"a", "b", "c">>, <<"1", ".", ",", "5">>, <<".">>, <<" ", "2", ",", "5">>}

RichRow(sku, absent, present, price) ==
    [c \in FeedColumns \cup {"sku"} |->
        IF c = "sku" THEN sku
        ELSE IF c = "retail_price" THEN price
        ELSE IF c \in present THEN Padded("x")
        ELSE absent]

RichRows ==
    {RichRow(sku, absent, present, price) :
        sku \in {Str("a"), Some(<<"b", " ">>)} \cup Absent,
        absent \in Absent,
        present \in SUBSET StringColumns,
        price \in Absent \cup {Some(t) : t \in PriceTexts}}

RowOutcomes ==
    {Raises,
     Returns(Envelope(Id, Plain(DocProteine), Usage(Some(8)))),
     Returns(Envelope(Id, Plain(DocList), Usage(Some(6))))}

StoredTables ==
    {EmptyStore}
    \cup {Upserted(EmptyStore, FullRow, outcome, 0).session :
            outcome \in {Raises, Returns(Envelope(Id, Plain(DocCreatina), Usage(Some(7))))}}

InitRows ==
    /\ db \in StoredTables
    /\ session = db
    /\ pc = "ingest"
    /\ todo = <<>>
    /\ now = MaxClock - 1
    /\ apiCalls = 0
    /\ fed = IF db = EmptyStore THEN {} ELSE {FullRow.sku}
    /\ last = NoOp
    /\ text = <<>>
    /\ decoded = Undecoded
    /\ answer = NoAnswer
    /\ marketed = Unapplied
    /\ feed = <<>>
    /\ first = EmptyStore

IngestRich ==
    /\ Ingesting
    /\ \E row \in RichRows : \E outcome \in RowOutcomes :
          UpsertRow(row, outcome)
    /\ UNCHANGED <<feed, first>>

NextRows == IngestRich

SpecRows == InitRows /\ [][NextRows]_vars

(***************************************************************************)
(* The decoder on its own: parse_json_content applied to a model text.     *)
(***************************************************************************)
Pieces == {Fence, Newline, Blank, Word, DocCreatina}

Texts == UNION {[1..n -> Pieces] : n \in 0..MaxTextLen}

InitDecode ==
    /\ text \in Texts
    /\ decoded = Undecoded
    /\ answer = NoAnswer
    /\ marketed = Unapplied
    /\ feed = <<>>
    /\ first = EmptyStore
    /\ db = EmptyStore
    /\ session = EmptyStore
    /\ pc = "ingest"
    /\ todo = <<>>
    /\ now = 0
    /\ apiCalls = 0
    /\ fed = {}
    /\ last = NoOp

Decode ==
    /\ ~decoded.done
    /\ decoded' = [done |-> TRUE, value |-> parse_json_content(text)]
    /\ UNCHANGED <<db, session, pc, todo, now, apiCalls, fed, last, text,
                   answer, marketed, feed, first>>

NextDecode == Decode

SpecDecode == InitDecode /\ [][NextDecode]_vars

(***************************************************************************)
(* The marketing assignments on their own: the reads and assignments of    *)
(* enrich_product_marketing applied to a stored product and a decoded      *)
(* dict.  Each of the seven keys is missing or carries one of a few        *)
(* values; the product is product a without marketing fields, or with the  *)
(* meta_title an earlier answer gave it.                                   *)
(***************************************************************************)
\* no value under the key
Missing == [t |-> "missing", v |-> <<>>]

PrimaryValues ==
    {Missing, JStr(<<>>), JStr(<<" ">>), JNum(<<"7">>), JStr(<<" ", "p">>)}

AliasValues == {Missing, JStr(<<" ">>), JNull, JStr(<<"q">>)}

WeightValues == {Missing, JStr(<<" ">>), JNum(<<"7">>), JStr(<<" ", "2kg", " ">>)}

\* the dict of the keys that have a value
Answer(p1, a1, p2, a2, p3, a3, weight) ==
    LET all == [html_description |-> p1, descriere |-> a1,
                meta_title |-> p2, meta_titlu |-> a2,
                meta_description |-> p3, meta_descriere |-> a3,
                weight |-> weight]
    IN  JDict([k \in {j \in DOMAIN all : all[j] # Missing} |-> all[k]])

MarketingAnswers ==
    {Answer(d1, d2, t1, t2, m1, m2, w) :
        d1 \in PrimaryValues, d2 \in AliasValues,
        t1 \in PrimaryValues, t2 \in AliasValues,
        m1 \in PrimaryValues, m2 \in AliasValues,
        w \in WeightValues}

\* product a after the import of FullRow, and after an answer that carried
\* a meta_title only
ImportedProduct ==
    Upserted(EmptyStore, FullRow,
             Returns(Envelope(Id, Plain(DocCreatina), Usage(Some(7)))),
             0).session[<<"a">>]

TitledProduct ==
    enrich_product_marketing(
        ImportedProduct,
        Returns(Envelope(Id, Plain(DocTitleOnly), Usage(Some(20)))),
        1).product

MarketingTables ==
    {Put(EmptyStore, ImportedProduct), Put(EmptyStore, TitledProduct)}

InitMarketing ==
    /\ answer \in MarketingAnswers
    /\ marketed = Unapplied
    /\ feed = <<>>
    /\ first = EmptyStore
    /\ db \in MarketingTables
    /\ session = db
    /\ pc = "enrich"
    /\ todo = <<<<"a">>>>
    /\ now = 2
    /\ apiCalls = 0
    /\ fed = {FullRow.sku}
    /\ last = NoOp
    /\ text = <<>>
    /\ decoded = Undecoded

Assign ==
    /\ ~marketed.done
    /\ LET product == session[Head(todo)]
           result == ApplyMarketing(product, answer)
       IN  marketed' = [done |-> TRUE, before |-> Some(product),
                        after |-> Some(result.product),
                        updated |-> result.updated]
    /\ UNCHANGED <<db, session, pc, todo, now, apiCalls, fed, last, text,
                   decoded, answer, feed, first>>

NextMarketing == Assign

SpecMarketing == InitMarketing /\ [][NextMarketing]_vars

(***************************************************************************)
(* A second run over the same feed.  The first run read the feed on an     *)
(* empty table and every API call gave a well-formed answer: a category    *)
(* for each row, the marketing fields for each record.  The second run     *)
(* reads the rows of the same feed in order; the clock counts from its     *)
(* start, so the clock readings of the first run are negative.             *)
(***************************************************************************)
MaxFeed == 2

Feeds == UNION {[1..n -> FeedRows] : n \in 1..MaxFeed}

WellFormedCategory == Returns(Envelope(Id, Plain(DocCreatina), Usage(Some(7))))

WellFormedMarketing ==
    {Returns(Envelope(Id, Plain(DocFull), Usage(Some(90)))),
     Returns(Envelope(Id, FencedLines(DocAlias), Usage(None)))}

\* the loop of main() over the feed: the table after process_csv_row of
\* each row
RECURSIVE IngestAll(_, _, _)
IngestAll(store, rows, clock) ==
    IF rows = <<>> THEN store
    ELSE IF normalise_string(Head(rows).sku) = None
    THEN IngestAll(store, Tail(rows), clock + 1)
    ELSE IngestAll(Upserted(store, Head(rows), WellFormedCategory, clock).session,
                   Tail(rows), clock + 1)

\* enrich_products: the table after the turn of each product of the listing
RECURSIVE EnrichAll(_, _, _, _)
EnrichAll(store, listing, outcome, clock) ==
    IF listing = <<>> THEN store
    ELSE LET step == enrich_product_marketing(store[Head(listing)], outcome, clock)
         IN  EnrichAll(IF step.ret
                       THEN Commit(Put(store, step.product), clock)
                       ELSE store,
                       Tail(listing), outcome, clock + 1)

\* main() on an empty table
FirstRun(rows, outcome) ==
    LET ingested == IngestAll(EmptyStore, rows, 0 - 2 * Len(rows))
        listing == CHOOSE o \in Orders(DOMAIN ingested) : TRUE
    IN  EnrichAll(ingested, listing, outcome, 0 - Len(rows))

InitRerun ==
    /\ feed \in Feeds
    /\ \E outcome \in WellFormedMarketing : first = FirstRun(feed, outcome)
    /\ db = first
    /\ session = db
    /\ pc = "ingest"
    /\ todo = <<>>
    /\ now = 0
    /\ apiCalls = 0
    /\ fed = {}
    /\ last = [NoOp EXCEPT !.op = "start"]
    /\ text = <<>>
    /\ decoded = Undecoded
    /\ answer = NoAnswer
    /\ marketed = Unapplied

\* the loop of main() takes the next row of the feed
ReadRow ==
    /\ Ingesting
    /\ feed # <<>>
    /\ \E outcome \in ClassifyOutcomes : UpsertRow(Head(feed), outcome)
    /\ feed' = Tail(feed)
    /\ UNCHANGED first

\* the feed has been read to its end
FeedRead ==
    /\ feed = <<>>
    /\ EndFeed

NextRerun ==
    \/ ReadRow
    \/ FeedRead
    \/ Enrich
    \/ EnrichDone

SpecRerun == InitRerun /\ [][NextRerun]_vars

(***************************************************************************)
(* Properties.                                                             *)
(***************************************************************************)
\* the product the last operation worked on, before it and as the
\* enrichment step received and left it
Before == Val(last.before)
StepIn == Val(last.stepIn)
StepOut == Val(last.stepOut)
Sku == Val(last.sku)

\* a column value that is missing, empty or made of whitespace only
IsAbsent(v) == v = None \/ \A i \in 1..Len(Val(v)) : Val(v)[i] \in Whitespace

HasCategory(product) == product.category # None /\ product.category # Some(<<>>)

HasTriple(product) ==
    \A c \in MarketingColumns : product[c] # None /\ product[c] # Some(<<>>)

\* a step from store to store2 keeps the category of every record that has
\* one
KeepsCategory(store, store2) ==
    \A k \in DOMAIN store :
        HasCategory(store[k]) =>
            k \in DOMAIN store2 /\ store2[k].category = store[k].category

\* C1: once the category of a record is non-empty, no operation (upsert,
\* enrichment, a new run), whatever the API answers, changes it: every step
\* keeps the non-empty categories of the session's objects and of the
\* committed rows.
C1_CategoryNeverChanges ==
    [][KeepsCategory(session, session') /\ KeepsCategory(db, db')]_vars

\* a row of a product that already had a category was upserted and
\* committed
C1_Witness ==
    /\ last.op = "upsert"
    /\ last.committed
    /\ last.before # None
    /\ HasCategory(Before)
    /\ last.row.name # None
    /\ db[Sku].category = Before.category

\* a step from store to store2 keeps the marketing triple of every record
\* whose three fields are non-empty
KeepsTriple(store, store2) ==
    \A k \in DOMAIN store :
        HasTriple(store[k]) =>
            /\ k \in DOMAIN store2
            /\ \A c \in MarketingColumns : store2[k][c] = store[k][c]

\* C2: once description, meta_title and meta_description of a record are
\* all non-empty, no operation changes any of the three.
C2_TripleNeverChanges ==
    [][KeepsTriple(session, session') /\ KeepsTriple(db, db')]_vars

\* a product whose triple was complete was upserted again in a later run
C2_Witness ==
    /\ last.op = "upsert"
    /\ last.committed
    /\ last.before # None
    /\ HasTriple(Before)
    /\ HasTriple(db[Sku])

\* C3: for a product whose category is non-empty, generate_product_category
\* makes no API call, returns the existing category and leaves every
\* attribute of the product as it was.
C3_ClassifyGuard ==
    (last.op = "upsert" /\ HasCategory(StepIn)) =>
        /\ ~last.called
        /\ ~last.raised
        /\ last.category = StepIn.category
        /\ StepOut = StepIn

\* the classification step was entered with a product that had a category
C3_Witness ==
    /\ last.op = "upsert"
    /\ HasCategory(StepIn)
    /\ last.category = StepIn.category
    /\ apiCalls = 1

\* C4: for a product whose three marketing fields are non-empty,
\* enrich_product_marketing makes no API call, returns false and leaves
\* every attribute of the product as it was.
C4_MarketingGuard ==
    (last.op = "enrich" /\ HasTriple(StepIn)) =>
        /\ ~last.called
        /\ ~last.raised
        /\ ~last.changed
        /\ StepOut = StepIn
        /\ session[Sku] = StepIn

\* the sweep visited a product whose triple was complete
C4_Witness ==
    /\ last.op = "enrich"
    /\ HasTriple(StepIn)
    /\ ~last.changed
    /\ apiCalls > 0

\* the trimmed non-empty SKUs among the sku values fed so far
FedSkus == {Strip(Val(v)) : v \in {w \in fed : ~IsAbsent(w)}}

\* C5: the committed table holds exactly one record for each distinct
\* non-empty trimmed SKU whose upsert_row has run, each under its own sku;
\* and every step keeps every record, its sku and its creation time (an
\* existing record is updated in place, none is removed or replaced).
C5_OneRecordPerSku ==
    /\ [](/\ DOMAIN db = FedSkus
          /\ \A k \in DOMAIN db : db[k].sku = k)
    /\ [][\A k \in DOMAIN db :
            /\ k \in DOMAIN db'
            /\ db'[k].sku = db[k].sku
            /\ db'[k].created_at = db[k].created_at]_vars

\* the same SKU was fed with and without padding, next to a second SKU, and
\* the table holds two records
C5_Witness ==
    /\ {Some(<<" ", "a">>), Some(<<"a">>), Some(<<"b", " ">>)} \subseteq fed
    /\ DOMAIN db = {<<"a">>, <<"b">>}
    /\ last.op = "upsert"
    /\ last.before # None

\* C6: upsert_row on a row whose sku is missing, empty or whitespace-only
\* leaves the committed table and the session as they were, calls no API
\* and commits nothing.
C6_RowWithoutSkuIsSkipped ==
    [][(last'.op \in {"skip", "upsert"} /\ IsAbsent(last'.row.sku)) =>
            /\ db' = db
            /\ session' = session
            /\ apiCalls' = apiCalls
            /\ ~last'.called
            /\ ~last'.committed]_vars

\* a row without sku that carries other values met a table holding a
\* product
C6_Witness ==
    /\ last.op = "skip"
    /\ last.row.sku = Some(<<" ">>)
    /\ ~IsAbsent(last.row.name)
    /\ db # EmptyStore

\* the value a column of the upserted product had before the upsert
ColumnBefore(c) == IF last.before = None THEN None ELSE Before[c]

\* C7: for each feed column, when the row's value is missing, empty or
\* whitespace-only the stored value is the same after upsert_row as before,
\* in the session and in the committed table.
C7_AbsentValueKeepsStored ==
    last.op = "upsert" =>
        \A c \in FeedColumns :
            IsAbsent(last.row[c]) =>
                /\ session[Sku][c] = ColumnBefore(c)
                /\ Sku \in DOMAIN db => db[Sku][c] = ColumnBefore(c)

\* a row with the sku alone was committed onto a product whose feed columns
\* were all filled
C7_Witness ==
    /\ last.op = "upsert"
    /\ last.committed
    /\ last.before # None
    /\ \A c \in FeedColumns : IsAbsent(last.row[c]) /\ Before[c] # None
    /\ \E c \in FeedColumns : last.row[c] = Some(<<" ">>)

\* C8: when the row's retail_price is no number, upsert_row keeps the price
\* stored before, applies the other columns of the row and commits.
C8_BadPriceRowIsCommitted ==
    (last.op = "upsert" /\ PriceUnparsable(last.row.retail_price)) =>
        /\ session[Sku].retail_price = ColumnBefore("retail_price")
        /\ \A c \in StringColumns :
              ~IsAbsent(last.row[c]) =>
                  session[Sku][c] = Some(Strip(Val(last.row[c])))
        /\ last.committed
        /\ Sku \in DOMAIN db
        /\ db[Sku] = session[Sku]

\* C9: when the API call raises, no exception leaves the step, the
\* classification step returns None and the marketing step False, and the
\* product is as it was when the step was entered.
C9_ApiErrorIsAbsorbed ==
    (last.called /\ last.outcome.raises) =>
        /\ request_chat_completion(last.outcome) = Returned(None)
        /\ ~last.raised
        /\ pc # "crashed"
        /\ last.category = None
        /\ ~last.changed
        /\ StepOut = StepIn
        /\ last.op = "enrich" => session[Sku] = StepIn /\ ~last.committed

\* the API raised in the marketing step of a product whose classification
\* had succeeded
C9_Witness ==
    /\ last.op = "enrich"
    /\ last.called
    /\ last.outcome.raises
    /\ HasCategory(StepIn)
    /\ apiCalls >= 2

\* a JSON object between a leading and a trailing fence, the fences on lines
\* of their own or on the line of the object
IsFencedObject(s) ==
    /\ Len(s) >= 3
    /\ s[1] = Fence
    /\ s[Len(s)] = Fence
    /\ Cardinality({i \in 2..(Len(s) - 1) : s[i] = DocCreatina}) = 1
    /\ \A i \in 2..(Len(s) - 1) : s[i] \in {DocCreatina, Newline, Blank}

\* C10: parse_json_content returns the JSON object of every text that is
\* that object between a leading and a trailing fence.
C10_FencedObjectIsDecoded ==
    (decoded.done /\ IsFencedObject(text)) =>
        decoded.value = Some(JsonValue(DocCreatina))

(***************************************************************************)
(* The marketing fields and their alias keys                               *)
(***************************************************************************)
\* the keys read for a field, in the order of the alias list
Aliases ==
    [description |-> <<"html_description", "descriere">>,
     meta_title |-> <<"meta_title", "meta_titlu">>,
     meta_description |-> <<"meta_description", "meta_descriere">>]

\* the answer has, under the key, a string with a character that is no
\* whitespace
Usable(payload, key) ==
    /\ key \in DOMAIN payload.d
    /\ payload.d[key].t = "str"
    /\ \E i \in 1..Len(payload.d[key].v) : payload.d[key].v[i] \notin Whitespace

\* the value a field has after the assignments: that of the first usable
\* key of its list, its own when no key is usable
Expected(product, payload, c) ==
    IF Usable(payload, Aliases[c][1]) THEN Some(payload.d[Aliases[c][1]].v)
    ELSE IF Usable(payload, Aliases[c][2]) THEN Some(payload.d[Aliases[c][2]].v)
    ELSE product[c]

\* the answer carries the three alias keys and a weight, all usable, and
\* nothing else
AliasOnly(payload) ==
    /\ DOMAIN payload.d = {"descriere", "meta_titlu", "meta_descriere", "weight"}
    /\ \A k \in DOMAIN payload.d : Usable(payload, k)

C12_SameRowTwice ==
    [][(last'.op = "upsert" /\ last'.repeat /\ now' = now + 1) =>
          LET k == Val(last'.sku)
          IN  /\ DOMAIN session' = DOMAIN session
              /\ DOMAIN db' = DOMAIN db
              /\ \A c \in FeedColumns \cup MarketingColumns :
                    session'[k][c] = session[k][c]
              /\ HasCategory(session[k]) =>
                    /\ session'[k].category = session[k].category
                    /\ ~last'.called
                    /\ apiCalls' = apiCalls
              /\ session[k].updated_at = Some(now - 1)
              /\ session'[k].updated_at = Some(now' - 1)
              /\ ~last'.raised => db' = session'
              /\ last'.raised => db' = db]_vars

\* FullRow was upserted twice in a row for a product with a category, and
\* the second upsert was committed
C12_Witness ==
    /\ last.op = "upsert"
    /\ last.repeat
    /\ last.row = FullRow
    /\ last.committed
    /\ HasCategory(Before)
    /\ ~last.called
    /\ db[Sku].updated_at = Some(now - 1)

(***************************************************************************)
(* Answers the prompt did not ask for                                      *)
(***************************************************************************)
\* C13: in every reachable state the category of every record is absent or
\* one of CATEGORY_CHOICES, whatever text the model returns.
C13_CategoryIsListed ==
    \A k \in DOMAIN db :
        db[k].category = None \/ Val(db[k].category) \in CATEGORY_CHOICES

\* C14: a failure while enriching a feed row does not block the rows after
\* it: whatever the outcome of the classification of a row with a sku (API
\* error, no content, undecodable text, an answer of unexpected shape), the
\* raw fields of the row are committed and main() is still in its loop over
\* the feed, so that the later rows are upserted.
C14_FailureDoesNotBlockLaterRows ==
    last.op = "upsert" =>
        /\ last.committed
        /\ pc = "ingest"
        /\ Sku \in DOMAIN db
        /\ \A c \in FeedColumns : db[Sku][c] = StepIn[c]

\* C15: for every envelope and every model text, a JSON document that is
\* no object and a usage that is no mapping included, the classification
\* step and the marketing step finish without raising, and the run goes on.
C15_StepsNeverRaise == ~last.raised /\ pc # "crashed"

(***************************************************************************)
(* The stored envelope                                                     *)
(***************************************************************************)
\* the last operation was an upsert or a turn of enrich_products
Acted == last.op \in {"upsert", "enrich"}

\* the record before the operation, a new Product when there was none
BeforeOrNew == IF last.before = None THEN Product(Sku) ELSE Before

EnrichedColumns ==
    {"category", "description", "meta_title", "meta_description", "weight"}

StoresEnvelope(old, new) ==
    \/ new.openai_response # old.openai_response
    \/ new.total_tokens # old.total_tokens

\* C16: whenever an operation changes openai_response or total_tokens of a
\* record, the same operation changes its category or at least one of its
\* description, meta_title, meta_description and weight (stated on the
\* committed row).
C16_EnvelopeOnlyWithFieldChange ==
    (Acted /\ last.committed /\ StoresEnvelope(BeforeOrNew, db[Sku])) =>
        \E c \in EnrichedColumns : db[Sku][c] # BeforeOrNew[c]

\* the model text of the last call, decoded
LastPayload == parse_json_content(last.outcome.env.content.text)

\* C16 amended: whenever an operation changes openai_response or
\* total_tokens of a record, the operation called the API, the call
\* returned an envelope whose text decoded to a non-empty JSON value, and
\* the envelope stored is that envelope; for an upsert nothing more is
\* needed (the answer may carry no category), for a turn of enrich_products
\* the answer carries a non-blank string under one of the seven marketing
\* keys.  The committed row equals the object whenever the operation
\* commits.
C16_EnvelopeOnlyWithDecodedAnswer ==
    Acted =>
        /\ StoresEnvelope(BeforeOrNew, session[Sku]) =>
              /\ last.called
              /\ ~last.outcome.raises
              /\ last.outcome.env.content.t = "str"
              /\ LastPayload # None
              /\ PayloadTruthy(Val(LastPayload))
              /\ session[Sku].openai_response = Some(last.outcome.env)
              /\ last.op = "enrich" =>
                    /\ Val(LastPayload).t = "dict"
                    /\ \E key \in DOMAIN Val(LastPayload).d :
                          /\ key \in {"weight"} \cup
                                UNION {{Aliases[c][1], Aliases[c][2]} :
                                          c \in MarketingColumns}
                          /\ Usable(Val(LastPayload), key)
        /\ last.committed => db[Sku] = session[Sku]
        /\ (~last.committed /\ Sku \in DOMAIN db) =>
              ~StoresEnvelope(BeforeOrNew, db[Sku])

\* an upsert stored the envelope of an answer without a category and was
\* committed: the record has an openai_response and no enriched field
C16_Witness ==
    /\ last.op = "upsert"
    /\ last.committed
    /\ last.before = None
    /\ db[Sku].openai_response = Some(last.outcome.env)
    /\ last.outcome.env.id # None
    /\ \A c \in EnrichedColumns : db[Sku][c] = None

(***************************************************************************)
(* Answers that cannot be decoded                                          *)
(***************************************************************************)
\* the last operation called the API, the call returned an envelope, and
\* the envelope has no message content (the key is missing or null) or its
\* text is not decoded by parse_json_content
DecodingFailed ==
    /\ Acted
    /\ last.called
    /\ ~last.outcome.raises
    /\ \/ last.outcome.env.content.t \in {"missing", "null"}
       \/ /\ last.outcome.env.content.t = "str"
          /\ LastPayload = None

\* C17: when the envelope lacks choices[0].message.content or the model
\* text is not valid JSON, the classification step returns absent and the
\* marketing step returns false, with the result they have for an API
\* error, and the step changes no attribute of the product.
C17_DecodingFailureChangesNothing ==
    DecodingFailed =>
        /\ ~last.raised
        /\ last.category = None
        /\ ~last.changed
        /\ StepOut = StepIn
        /\ last.op = "upsert" =>
              /\ generate_product_category(StepIn, Raises) =
                    StepResult(StepOut, last.category, TRUE, FALSE)
              /\ last.committed
        /\ last.op = "enrich" =>
              /\ enrich_product_marketing(StepIn, Raises, now - 1) =
                    StepResult(StepOut, last.changed, TRUE, FALSE)
              /\ ~last.committed
              /\ session[Sku] = StepIn

\* the marketing step was given a text that is not JSON, for a product
\* that lacks the triple
C17_Witness ==
    /\ last.op = "enrich"
    /\ DecodingFailed
    /\ last.outcome.env.content.text = <<DocFull, Word>>
    /\ ~HasTriple(StepIn)
    /\ session[Sku] = StepIn

(***************************************************************************)
(* What the marketing step reports                                         *)
(***************************************************************************)
MarketingKeys ==
    {"weight"} \cup
    UNION {{Aliases[c][1], Aliases[c][2]} : c \in MarketingColumns}

\* the last call returned a text that decoded to a dict with a non-blank
\* string under one of the marketing keys: the step assigned a field
MarketingAssigned ==
    /\ last.called
    /\ ~last.outcome.raises
    /\ last.outcome.env.content.t = "str"
    /\ LastPayload # None
    /\ Val(LastPayload).t = "dict"
    /\ \E key \in MarketingKeys : Usable(Val(LastPayload), key)

\* C18: the marketing step returns true if and only if it assigned at
\* least one of description, meta_title, meta_description and weight (the
\* weight only from a non-empty string, stored trimmed); when it returns
\* true it has refreshed updated_at and stored the envelope and the token
\* count; when it returns false the product is unchanged, updated_at,
\* openai_response and total_tokens included.
C18_TrueIffAssigned ==
    last.op = "enrich" =>
        /\ last.changed <=> MarketingAssigned
        /\ last.changed =>
              /\ StepOut.updated_at = Some(now - 1)
              /\ StepOut.openai_response = Some(last.outcome.env)
              /\ StepOut.total_tokens = last.outcome.env.usage.total
              /\ \A c \in MarketingColumns :
                    StepOut[c] = Expected(StepIn, Val(LastPayload), c)
              /\ StepOut.weight =
                    IF Usable(Val(LastPayload), "weight")
                    THEN Some(Strip(Val(LastPayload).d["weight"].v))
                    ELSE StepIn.weight
        /\ (~last.changed /\ ~last.raised) => StepOut = StepIn

(***************************************************************************)
(* A field of the triple, once populated                                   *)
(***************************************************************************)
\* C19: each field of the marketing triple is populated at most once: a
\* description, meta_title or meta_description that is non-empty is never
\* given a different value by a later marketing step, also while the other
\* fields of the triple are still missing (stated on the committed row).
C19_FieldPopulatedOnce ==
    (last.op = "enrich" /\ last.committed) =>
        \A c \in MarketingColumns :
            Truthy(StepIn[c]) => db[Sku][c] = StepIn[c]

\* C19 amended: a non-empty field of the triple is never emptied by a
\* marketing step, and it is given a different value only while another
\* field of the triple is still missing, by a step whose answer carries a
\* non-blank string for the field; the new value is that string.
C19_FieldOverwrittenOnlyWhileIncomplete ==
    last.op = "enrich" =>
        \A c \in MarketingColumns :
            Truthy(StepIn[c]) =>
                /\ Truthy(session[Sku][c])
                /\ session[Sku][c] # StepIn[c] =>
                      /\ ~HasTriple(StepIn)
                      /\ MarketingAssigned
                      /\ \/ Usable(Val(LastPayload), Aliases[c][1])
                         \/ Usable(Val(LastPayload), Aliases[c][2])
                      /\ session[Sku][c] = Expected(StepIn, Val(LastPayload), c)

\* a marketing step gave a new value to a meta_title that was non-empty,
\* and the change was committed
C19_Witness ==
    /\ last.op = "enrich"
    /\ last.committed
    /\ Truthy(StepIn.meta_title)
    /\ ~Truthy(StepIn.description)
    /\ db[Sku].meta_title # StepIn.meta_title
    /\ Truthy(db[Sku].meta_title)

(***************************************************************************)
(* Commits                                                                 *)
(***************************************************************************)
\* the records of the session that differ from their committed row, or
\* have none
Dirty(objects, rows) ==
    {k \in DOMAIN objects : k \notin DOMAIN rows \/ rows[k] # objects[k]}

\* the rows a step from rows to rows2 inserted or changed
Covered(rows, rows2) ==
    {k \in DOMAIN rows2 : k \notin DOMAIN rows \/ rows2[k] # rows[k]}

\* C20: at every point of a run at most one record has modifications that
\* are not committed, and no commit covers more than one record's mutation:
\* between two operations of a run nothing is uncommitted; when the run
\* stops because a step raised, the committed rows are those the last
\* completed row or record left and the only uncommitted record is the one
\* being worked on; when enrich_products has finished no record holds an
\* uncommitted change.
C20_OneRecordPerCommit ==
    [][/\ Cardinality(Dirty(session', db')) <= 1
       /\ Cardinality(Covered(db, db')) <= 1
       /\ DOMAIN db \subseteq DOMAIN db'
       /\ pc' # "crashed" => Dirty(session', db') = {}
       /\ (pc' = "crashed" /\ pc # "crashed") =>
             /\ db' = db
             /\ Dirty(session', db') \subseteq {Val(last'.sku)}
       /\ pc' = "done" => session' = db']_vars

\* the table holds two products, and a turn of enrich_products raised
\* after it had changed its product: that product is the only one with an
\* uncommitted change, and its row is as it was
C20_Witness ==
    /\ pc = "crashed"
    /\ last.op = "enrich"
    /\ Cardinality(DOMAIN db) = 2
    /\ Dirty(session, db) = {Sku}
    /\ db[Sku] = Before

(***************************************************************************)
(* Retries                                                                 *)
(***************************************************************************)
\* the step of the operation called the API and came back without a value
\* for its field
StepFailed(done) ==
    /\ done.op \in {"upsert", "enrich"}
    /\ done.called
    /\ ~done.raised
    /\ done.op = "upsert" => ~Truthy(done.category)
    /\ done.op = "enrich" => ~done.changed

\* C21: there is no in-process retry: within one run a product whose
\* classification call (or marketing call) failed or gave an unusable
\* answer receives no further API call for that step, for every feed, a
\* feed that repeats a sku included: the operation that follows a failed
\* step in the same run never calls the API for the same step of the same
\* product.
C21_NoSecondCallInRun ==
    [][~(/\ StepFailed(last)
         /\ now' = now + 1
         /\ last'.op = last.op
         /\ last'.sku = last.sku
         /\ last'.called)]_vars

\* the products named in a listing
Listed(seq) == {seq[i] : i \in DOMAIN seq}

\* C21 amended: there is no retry loop: every operation makes at most one
\* API call, an upsert exactly when the category of its product is not
\* set and a turn of enrich_products exactly when the triple is
\* incomplete; enrich_products visits a product once in a run, so a failed
\* marketing call is repeated only by a later run; a failed step leaves
\* its field unset in the committed row.  (A feed that repeats a sku
\* upserts the product again, and the classification is called again.)
C21_NoRetryLoop ==
    [][/\ apiCalls' \in {apiCalls, apiCalls + 1}
       /\ apiCalls' = apiCalls + 1 <=> (now' = now + 1 /\ last'.called)
       /\ (now' = now + 1 /\ last'.op = "upsert") =>
             (last'.called <=> ~Truthy(Val(last'.stepIn).category))
       /\ (now' = now + 1 /\ last'.op = "enrich") =>
             /\ last'.called <=> ~(\A c \in MarketingColumns :
                                      Truthy(Val(last'.stepIn)[c]))
             /\ todo' = Tail(todo)
             /\ Val(last'.sku) \notin Listed(todo')
       /\ (now' = now + 1 /\ StepFailed(last')) =>
             /\ Val(last'.sku) \in DOMAIN db'
             /\ last'.op = "upsert" => ~HasCategory(db'[Val(last'.sku)])
             /\ last'.op = "enrich" => ~HasTriple(db'[Val(last'.sku)])]_vars

\* a row was upserted twice in a row, the classification call of the first
\* upsert had failed, and the second upsert called the API again
C21_Witness ==
    /\ last.op = "upsert"
    /\ last.repeat
    /\ last.called
    /\ ~HasCategory(Before)
    /\ Before.updated_at = Some(now - 2)

(***************************************************************************)
(* The order of a run                                                      *)
(***************************************************************************)
\* C22: a run is sequential and ordered.  For a feed row the steps are
\* lookup or create, apply the normalised fields, classify, commit: the
\* lookup reads what the rows before left, the classification is handed
\* the product with the row applied, and the committed row is what the
\* classification left, with the category it returned.  The commit of a
\* row precedes every step of the next: a row is taken up only when
\* nothing is uncommitted.  No marketing call is made before the last feed
\* row has been committed: the turns of enrich_products come after the
\* loop over the feed, on a fully committed table, and no row is upserted
\* once they have begun.
C22_StrictOrder ==
    [][now' = now + 1 =>
          /\ last'.op \in {"skip", "upsert"} =>
                /\ pc = "ingest"
                /\ Dirty(session, db) = {}
          /\ last'.op = "upsert" =>
                LET k == Val(last'.sku)
                    old == IF k \in DOMAIN session THEN session[k]
                           ELSE Product(k)
                    handed == Val(last'.stepIn)
                    left == Val(last'.stepOut)
                IN  /\ last'.before = (IF k \in DOMAIN session
                                       THEN Some(session[k]) ELSE None)
                    /\ handed = [ApplyRow(old, last'.row) EXCEPT
                                    !.updated_at = Some(now)]
                    /\ \A c \in FeedColumns : left[c] = handed[c]
                    /\ last'.committed =>
                          /\ \A c \in FeedColumns \cup
                                    {"openai_response", "total_tokens"} :
                                db'[k][c] = left[c]
                          /\ db'[k].category =
                                IF Truthy(last'.category) THEN last'.category
                                ELSE left.category
          /\ last'.op = "enrich" =>
                /\ pc = "enrich"
                /\ Dirty(session, db) = {}
                /\ DOMAIN session = DOMAIN db
          /\ pc = "enrich" => pc' \in {"enrich", "crashed"}]_vars

\* a feed of two products has been committed and a turn of
\* enrich_products has made its marketing call
C22_Witness ==
    /\ last.op = "enrich"
    /\ last.called
    /\ pc = "enrich"
    /\ Cardinality(DOMAIN db) = 2
    /\ \A k \in DOMAIN db : db[k].updated_at # None

(***************************************************************************)
(* Which operation writes which field                                      *)
(***************************************************************************)
\* the column of a record of the store, None for a record it does not hold
ColumnOf(store, k, c) == IF k \in DOMAIN store THEN store[k][c] ELSE None

\* the step leaves the columns of every record of the store as they were
Keeps(store, store2, columns) ==
    \A k \in DOMAIN store \cup DOMAIN store2 :
        \A c \in columns : ColumnOf(store2, k, c) = ColumnOf(store, k, c)

\* C23: description, meta_title and meta_description are changed only by
\* the marketing step, and the category only by the classification inside
\* the upsert of a row: an upsert (or a skipped row) leaves the three
\* marketing fields of every record unchanged, a turn of enrich_products
\* leaves the category of every record unchanged, and the other steps of
\* main() change no committed row.
C23_WhoWritesWhat ==
    [][/\ (now' = now + 1 /\ last'.op \in {"skip", "upsert"}) =>
             /\ Keeps(session, session', MarketingColumns)
             /\ Keeps(db, db', MarketingColumns)
       /\ (now' = now + 1 /\ last'.op = "enrich") =>
             /\ Keeps(session, session', {"category"})
             /\ Keeps(db, db', {"category"})
       /\ now' = now => db' = db]_vars

\* a turn of enrich_products gave a description to a product that has a
\* category, and committed it
C23_Witness ==
    /\ last.op = "enrich"
    /\ last.committed
    /\ HasCategory(Before)
    /\ db[Sku].category = Before.category
    /\ db[Sku].description # Before.description

(***************************************************************************)
(* Stored strings                                                          *)
(***************************************************************************)
\* a string with a character, whose first and last characters are no
\* whitespace
Trimmed(str) ==
    /\ str # <<>>
    /\ str[1] \notin Whitespace
    /\ str[Len(str)] \notin Whitespace

\* the record has a trimmed sku, and each of its string columns is absent
\* or trimmed
WellFormed(product) ==
    /\ Trimmed(product.sku)
    /\ \A c \in StringColumns : product[c] = None \/ Trimmed(Val(product[c]))

\* C24: in every reachable state each of sku, manufacturer_name, name, qty,
\* flavour, weight and img_url of every record is absent or a non-empty
\* string without leading or trailing whitespace, whether the value came
\* from the feed or (the weight) from the model, and the sku is never
\* absent or empty; the sku is the key of the record.
C24_StoredStringsAreTrimmed ==
    /\ \A k \in DOMAIN db : WellFormed(db[k]) /\ db[k].sku = k
    /\ \A k \in DOMAIN session : WellFormed(session[k]) /\ session[k].sku = k

\* the model gave a weight with blanks around it, and the record was
\* committed with the trimmed weight
C24_Witness ==
    /\ last.op = "enrich"
    /\ last.committed
    /\ MarketingAssigned
    /\ "weight" \in DOMAIN Val(LastPayload).d
    /\ Val(LastPayload).d["weight"] = JStr(<<" ", "2kg", " ">>)
    /\ db[Sku].weight = Some(<<"2kg">>)

(***************************************************************************)
(* What enrich_products leaves alone                                       *)
(***************************************************************************)
\* the columns the marketing step has no assignment for
FeedOwnedColumns ==
    {"sku", "manufacturer_name", "name", "qty", "flavour", "img_url",
     "retail_price", "category", "created_at"}

\* C25: enrich_products creates no record and leaves sku,
\* manufacturer_name, name, qty, flavour, img_url, retail_price, category
\* and created_at of every record unchanged; of the fields the feed
\* supplies, the weight is the only one the marketing step may overwrite.
C25_EnrichFrame ==
    [][(pc = "enrich" /\ pc' # "ingest") =>
          /\ DOMAIN session' = DOMAIN session
          /\ DOMAIN db' = DOMAIN db
          /\ \A k \in DOMAIN session :
                \A c \in FeedOwnedColumns : session'[k][c] = session[k][c]
          /\ \A k \in DOMAIN db :
                \A c \in FeedOwnedColumns : db'[k][c] = db[k][c]]_vars

\* a turn of enrich_products replaced the weight the feed had supplied,
\* and committed it
C25_Witness ==
    /\ last.op = "enrich"
    /\ last.committed
    /\ Before.weight # None
    /\ db[Sku].weight # Before.weight
    /\ \A c \in FeedOwnedColumns : db[Sku][c] = Before[c]
    /\ Before.name # None

(***************************************************************************)
(* Convergence                                                             *)
(***************************************************************************)
AllColumns == DOMAIN Product(<<"a">>)

\* C26: the pipeline converges: after a run in which every API call gave a
\* well-formed answer (a category for each row, the three marketing fields
\* for each record), a second run over the same feed makes no API call,
\* commits nothing in enrich_products, and when it is over every record
\* has the attributes the first run left, updated_at excepted, and there
\* is no new record.
C26_SecondRunChangesNothing ==
    /\ apiCalls = 0
    /\ last.op = "enrich" => ~last.called /\ ~last.committed
    /\ pc = "done" =>
          /\ DOMAIN db = DOMAIN first
          /\ \A k \in DOMAIN db :
                \A c \in AllColumns \ {"updated_at"} : db[k][c] = first[k][c]

====
